---- MODULE Spec2Model ----
(***************************************************************************)
(* StereoSlamNode (orb_slam3_ros2_wrapper/src/Stereo/stereo-slam-node.cpp) *)
(* as a state machine: the node's callbacks run on executor threads, the   *)
(* callbacks of one MutuallyExclusive callback group never overlap, the    *)
(* callbacks of different groups interleave at every access to the node's  *)
(* fields.                                                                 *)
(***************************************************************************)
EXTENDS Integers, Sequences, FiniteSets, TLC

VARIABLES
    no_odometry_mode_,        \* parameter "no_odometry_mode", read once (line 68)
    publish_tf_,              \* parameter "publish_tf", read once (line 71)
    rosViz_,                  \* parameter "ros_visualization", read once (line 50)
    isTracked_,               \* the tracking flag
    tfMapOdom_,               \* the cached map->odom / map->robot transform
    frequency_tracker_count_, \* tracking successes since the last report
    leftQ, rightQ,            \* images buffered by the approximate-time synchronizer
    delivered,                \* pairs the synchronizer handed to StereoCallback, in order
    trackCalls,               \* pairs trackStereo was invoked with, in order
    running,                  \* executor thread -> the callback frame it runs
    nEvents,                  \* callbacks started so far (also the id of the newest message)
    op,                       \* the step taken last
    calls,                    \* calls to the engine, publishers, broadcaster made by that step
    done,                     \* on a callback's return: the callback and all the calls it made
    reply,                    \* on a service's return: its request and its response
    successes,                \* trackStereo calls that returned tracked, so far
    reported                  \* sum of the counter values publishMapData has reported

vars == << no_odometry_mode_, publish_tf_, rosViz_, isTracked_, tfMapOdom_,
           frequency_tracker_count_, leftQ, rightQ, delivered, trackCalls,
           running, nEvents, op, calls, done, reply, successes, reported >>

config == << no_odometry_mode_, publish_tf_, rosViz_ >>

----------------------------------------------------------------------------
(* Bounds of the model *)

MaxEvents == 5      \* callbacks started in one run
MaxCloud == 1       \* largest point cloud the engine returns (0 = empty)
MaxQueryEvents == 3 \* callbacks started in one run of SpecInView

(* Program constants *)

QueueSize == 10     \* approximate_sync_policy(10)
MaxLandmarksInView == 1000  \* mapPointsVisibleFromPose(..., 1000, 5.0, 2.0)
NThreads == 2       \* threads of the executor

Threads == 1 .. NThreads

----------------------------------------------------------------------------
(* Values *)

NoPair == << 0, 0 >>

DefaultTF == [by |-> "default", id |-> 0]

Call(f, a) == [f |-> f, a |-> a]

\* What a step reports when a callback returns in it, and when none does.
Returned(h, log) == [h |-> h, log |-> log]

NoReturn == Returned("none", << >>)

\* What a step reports when a service answers in it, and when none does.
Reply(h, req, resp) == [h |-> h, req |-> req, resp |-> resp]

NoReply == Reply("none", << >>, << >>)

\* The names of the calls in a sequence of calls.
Names(s) == [i \in DOMAIN s |-> s[i].f]

IdleFrame == [h |-> "idle", pc |-> "idle", pair |-> NoPair, loc |-> 0, log |-> << >>]

Frame(h, pc, pair, loc, log) == [h |-> h, pc |-> pc, pair |-> pair, loc |-> loc, log |-> log]

RECURSIVE CountCalls(_, _)
CountCalls(s, f) ==
    IF s = << >> THEN 0
    ELSE (IF Head(s).f = f THEN 1 ELSE 0) + CountCalls(Tail(s), f)

----------------------------------------------------------------------------
(* The tracking engine (ORBSLAM3Interface), an opaque collaborator *)

\* trackStereo(left, right, Tcw): tracked or not, as the engine decides
TrackResults == BOOLEAN

\* getDirectMapToRobotTF(header, tf): a transform computed for that header
getDirectMapToRobotTF(left) == [by |-> "direct", id |-> left]

\* getMapToOdomTF(msgOdom, tf): a transform computed for that odometry sample
getMapToOdomTF(odom) == [by |-> "odom", id |-> odom]

\* getCurrentMapPoints(mapPCL): the size of the cloud's data, possibly 0
CloudSizes == 0 .. MaxCloud

\* mapDataToMsg(msg, currentMapKFOnly, includeMapPoints, kFIDforMapPoints):
\* the snapshot of the map under those filters
mapDataToMsg(current_only, tracked_points, kf_id) ==
    [current_only |-> current_only, tracked_points |-> tracked_points, kf_id |-> kf_id]

\* request->kf_id_for_landmarks
KeyframeIds == {0, 1}

\* mapPointsVisibleFromPose(pose, points, maxLandmarks, maxDistance, maxAngle):
\* of the n points visible from the pose, the first maxLandmarks at most
Min(a, b) == IF a < b THEN a ELSE b

mapPointsVisibleFromPose(n, maxLandmarks) == [i \in 1 .. Min(n, maxLandmarks) |-> i]

\* How many points the engine finds visible: none or a few ...
VisibleCounts == 0 .. MaxCloud

\* ... or as many as the limit of the lookup, or more.
VisibleCountsAtLimit == {MaxLandmarksInView, MaxLandmarksInView + 1}

\* MapPoint::GetWorldPos(): the point's position in the SLAM frame
GetWorldPos(point) == [orb |-> point]

\* WrapperTypeConversions::vector3fORBToROS: that position in the ROS frame
vector3fORBToROS(v) == [ros |-> v.orb]

----------------------------------------------------------------------------
(* Executor and callback groups *)

\* Mutant: the timers are created without a callback group of their own.
GroupOf_TimersInDefault(h) == IF h = "idle" THEN "none" ELSE "default"

\* Both timers are created in mapDataCallbackGroup_; everything else is in
\* the node's default callback group.
GroupOf(h) ==
    IF h \in {"publishMapData", "publishMapPointCloud"} THEN "mapData"
    ELSE IF h = "idle" THEN "none"
    ELSE "default"

Idle == {t \in Threads : running[t].h = "idle"}

\* Mutant: the group behaves as a Reentrant callback group.
GroupFree_Reentrant(g) == TRUE

\* MutuallyExclusive: a callback of a group is taken only while no other
\* callback of that group runs.
GroupFree(g) == \A t \in Threads : GroupOf(running[t].h) # g

CanStart(h) == nEvents < MaxEvents /\ Idle # {} /\ GroupFree(GroupOf(h))

FreeThread == CHOOSE t \in Idle : \A u \in Idle : t <= u

Start(h, pc, log) ==
    /\ running' = [running EXCEPT ![FreeThread] = Frame(h, pc, NoPair, 0, log)]
    /\ nEvents' = nEvents + 1

Return(t) == running' = [running EXCEPT ![t] = IdleFrame]

\* StereoCallback returns into the synchronizer that called it.
BackToSync(t) ==
    running' = [running EXCEPT ![t] = Frame("imageSub", "sync", NoPair, 0, << >>)]

Goto(t, pc, log) ==
    running' = [running EXCEPT ![t].pc = pc, ![t].log = running[t].log \o log]

----------------------------------------------------------------------------
(* Construction *)

isTracked_Init == FALSE

Init ==
    /\ no_odometry_mode_ \in BOOLEAN
    /\ publish_tf_ \in BOOLEAN
    /\ rosViz_ \in BOOLEAN
    /\ isTracked_ = isTracked_Init
    /\ tfMapOdom_ = DefaultTF
    /\ frequency_tracker_count_ = 0
    /\ leftQ = << >>
    /\ rightQ = << >>
    /\ delivered = << >>
    /\ trackCalls = << >>
    /\ running = [t \in Threads |-> IdleFrame]
    /\ nEvents = 0
    /\ op = "init"
    /\ calls = << >>
    /\ done = NoReturn
    /\ reply = NoReply
    /\ successes = 0
    /\ reported = 0

----------------------------------------------------------------------------
(* The stereo synchronizer: leftSub_ / rightSub_ feed syncApproximate_,     *)
(* which calls StereoCallback from inside the image subscription callback. *)

\* A buffered queue keeps the newest QueueSize images.
Buffer(q, id) ==
    IF Len(q) < QueueSize THEN Append(q, id) ELSE Append(Tail(q), id)

\* An image arrives on one side and its subscription callback starts.
ImageArrives ==
    /\ CanStart("imageSub")
    /\ \E side \in {"left", "right"} :
          /\ leftQ' = IF side = "left" THEN Buffer(leftQ, nEvents + 1) ELSE leftQ
          /\ rightQ' = IF side = "right" THEN Buffer(rightQ, nEvents + 1) ELSE rightQ
    /\ Start("imageSub", "sync", << >>)
    /\ reply' = NoReply
    /\ op' = "ImageArrives"
    /\ calls' = << >>
    /\ done' = NoReturn
    /\ UNCHANGED << config, successes, reported, isTracked_, tfMapOdom_, frequency_tracker_count_,
                    delivered, trackCalls >>

\* The synchronizer pairs a buffered left image with a buffered right image,
\* drops what is older than the pair, and enters StereoCallback with it.
SyncEmit(t) ==
    /\ running[t].pc = "sync"
    /\ \E i \in 1 .. Len(leftQ), j \in 1 .. Len(rightQ) :
          LET pair == << leftQ[i], rightQ[j] >> IN
          /\ leftQ' = SubSeq(leftQ, i + 1, Len(leftQ))
          /\ rightQ' = SubSeq(rightQ, j + 1, Len(rightQ))
          /\ delivered' = Append(delivered, pair)
          /\ running' = [running EXCEPT ![t] = Frame("imageSub", "StereoCallback", pair, 0, << >>)]
    /\ reply' = NoReply
    /\ op' = "SyncEmit"
    /\ calls' = << >>
    /\ done' = NoReturn
    /\ UNCHANGED << config, successes, reported, isTracked_, tfMapOdom_, frequency_tracker_count_,
                    trackCalls, nEvents >>

\* The synchronizer has nothing (more) to emit: the subscription callback returns.
SyncReturn(t) ==
    /\ running[t].pc = "sync"
    /\ Return(t)
    /\ reply' = NoReply
    /\ op' = "SyncReturn"
    /\ calls' = << >>
    /\ done' = NoReturn
    /\ UNCHANGED << config, successes, reported, isTracked_, tfMapOdom_, frequency_tracker_count_,
                    leftQ, rightQ, delivered, trackCalls, nEvents >>

----------------------------------------------------------------------------
(* StereoCallback *)

\* Mutant: the pair is dropped without a tracking call.
TrackStereoInvoke_Skip(log, pair) == log

\* interface_->trackStereo(msgLeft, msgRight, Tcw) is entered: one invocation
TrackStereoInvoke(log, pair) == Append(log, pair)

\* Mutant: isTracked_ = trackStereo(...).
TrackedFlag_Assign(flag, tracked) == tracked

\* isTracked_ = true, on success only
TrackedFlag(flag, tracked) == IF tracked THEN TRUE ELSE flag

\* Mutant: the broadcast sits inside the no_odometry_mode_ branch.
TransformOnTracked_DirectOnly(tf, left) ==
    IF publish_tf_ /\ no_odometry_mode_
    THEN [tf |-> getDirectMapToRobotTF(left),
          calls |-> << Call("getDirectMapToRobotTF", left),
                       Call("sendTransform", getDirectMapToRobotTF(left)) >>]
    ELSE [tf |-> tf, calls |-> << >>]

\* Mutant: the cached transform is broadcast before it is recomputed.
TransformOnTracked_SendStale(tf, left) ==
    IF publish_tf_
    THEN LET new == IF no_odometry_mode_ THEN getDirectMapToRobotTF(left) ELSE tf
             comp == IF no_odometry_mode_
                     THEN << Call("getDirectMapToRobotTF", left) >> ELSE << >>
         IN [tf |-> new, calls |-> << Call("sendTransform", tf) >> \o comp]
    ELSE [tf |-> tf, calls |-> << >>]

\* Mutant: the publish_tf_ test is missing.
TransformOnTracked_NoPublishTest(tf, left) ==
    LET new == IF no_odometry_mode_ THEN getDirectMapToRobotTF(left) ELSE tf
        comp == IF no_odometry_mode_
                THEN << Call("getDirectMapToRobotTF", left) >> ELSE << >>
    IN [tf |-> new, calls |-> comp \o << Call("sendTransform", new) >>]

\* if (publish_tf_) { if (no_odometry_mode_) getDirectMapToRobotTF(...);
\*                    sendTransform(tfMapOdom_); }
TransformOnTracked(tf, left) ==
    IF publish_tf_
    THEN LET new == IF no_odometry_mode_ THEN getDirectMapToRobotTF(left) ELSE tf
             comp == IF no_odometry_mode_
                     THEN << Call("getDirectMapToRobotTF", left) >> ELSE << >>
         IN [tf |-> new, calls |-> comp \o << Call("sendTransform", new) >>]
    ELSE [tf |-> tf, calls |-> << >>]

\* StereoCallback calls trackStereo, which does not return yet.
StereoCallback_Track(t) ==
    /\ running[t].pc = "StereoCallback"
    /\ trackCalls' = TrackStereoInvoke(trackCalls, running[t].pair)
    /\ calls' = << Call("trackStereo", running[t].pair) >>
    /\ Goto(t, "trackStereo", calls')
    /\ reply' = NoReply
    /\ op' = "StereoCallback_Track"
    /\ done' = NoReturn
    /\ UNCHANGED << config, successes, reported, isTracked_, tfMapOdom_, frequency_tracker_count_,
                    leftQ, rightQ, delivered, nEvents >>

\* trackStereo returns; on success the flag is set and the transform handled,
\* on failure StereoCallback returns to the synchronizer.
StereoCallback_Tracked(t) ==
    /\ running[t].pc = "trackStereo"
    /\ \E tracked \in TrackResults :
          LET r == TransformOnTracked(tfMapOdom_, running[t].pair[1]) IN
          /\ isTracked_' = TrackedFlag(isTracked_, tracked)
          /\ successes' = IF tracked THEN successes + 1 ELSE successes
          /\ tfMapOdom_' = IF tracked THEN r.tf ELSE tfMapOdom_
          /\ calls' = IF tracked THEN r.calls ELSE << >>
          /\ IF tracked THEN Goto(t, "count_load", calls') ELSE BackToSync(t)
          /\ reply' = NoReply
          /\ op' = IF tracked THEN "StereoCallback_Tracked" ELSE "StereoCallback_NotTracked"
          /\ done' = IF tracked THEN NoReturn
                     ELSE Returned("StereoCallback", running[t].log)
    /\ UNCHANGED << config, reported, frequency_tracker_count_, leftQ, rightQ, delivered,
                    trackCalls, nEvents >>

\* ++frequency_tracker_count_ : the load ...
StereoCallback_CountLoad(t) ==
    /\ running[t].pc = "count_load"
    /\ running' = [running EXCEPT ![t].pc = "count_store",
                                   ![t].loc = frequency_tracker_count_]
    /\ reply' = NoReply
    /\ op' = "StereoCallback_CountLoad"
    /\ calls' = << >>
    /\ done' = NoReturn
    /\ UNCHANGED << config, successes, reported, isTracked_, tfMapOdom_, frequency_tracker_count_,
                    leftQ, rightQ, delivered, trackCalls, nEvents >>

\* ... and the store; StereoCallback returns to the synchronizer.
StereoCallback_CountStore(t) ==
    /\ running[t].pc = "count_store"
    /\ frequency_tracker_count_' = running[t].loc + 1
    /\ BackToSync(t)
    /\ reply' = NoReply
    /\ op' = "StereoCallback_CountStore"
    /\ calls' = << >>
    /\ done' = Returned("StereoCallback", running[t].log)
    /\ UNCHANGED << config, successes, reported, isTracked_, tfMapOdom_, leftQ, rightQ, delivered,
                    trackCalls, nEvents >>

----------------------------------------------------------------------------
(* OdomCallback and ImuCallback *)

\* Mutant: the test reads no_odometry_mode_ without the negation.
TransformOnOdom_Inverted(tf, odom) ==
    IF no_odometry_mode_ /\ publish_tf_
    THEN [tf |-> getMapToOdomTF(odom), calls |-> << Call("getMapToOdomTF", odom) >>]
    ELSE [tf |-> tf, calls |-> << Call("RCLCPP_WARN_THROTTLE", 4000) >>]

\* Mutant: the test reads publish_tf_ alone.
TransformOnOdom_NoModeTest(tf, odom) ==
    IF publish_tf_
    THEN [tf |-> getMapToOdomTF(odom), calls |-> << Call("getMapToOdomTF", odom) >>]
    ELSE [tf |-> tf, calls |-> << Call("RCLCPP_WARN_THROTTLE", 4000) >>]

\* Mutant: the test reads !no_odometry_mode_ alone.
TransformOnOdom_NoPublishTest(tf, odom) ==
    IF ~no_odometry_mode_
    THEN [tf |-> getMapToOdomTF(odom), calls |-> << Call("getMapToOdomTF", odom) >>]
    ELSE [tf |-> tf, calls |-> << Call("RCLCPP_WARN_THROTTLE", 4000) >>]

\* if (!no_odometry_mode_ && publish_tf_) getMapToOdomTF(msgOdom, tfMapOdom_);
\* else RCLCPP_WARN_THROTTLE(...)
TransformOnOdom(tf, odom) ==
    IF ~no_odometry_mode_ /\ publish_tf_
    THEN [tf |-> getMapToOdomTF(odom), calls |-> << Call("getMapToOdomTF", odom) >>]
    ELSE [tf |-> tf, calls |-> << Call("RCLCPP_WARN_THROTTLE", 4000) >>]

OdomCallback ==
    /\ CanStart("OdomCallback")
    /\ LET r == TransformOnOdom(tfMapOdom_, nEvents + 1) IN
          /\ tfMapOdom_' = r.tf
          /\ calls' = r.calls
          /\ done' = Returned("OdomCallback", r.calls)
    /\ nEvents' = nEvents + 1
    /\ reply' = NoReply
    /\ op' = "OdomCallback"
    /\ UNCHANGED << config, successes, reported, isTracked_, frequency_tracker_count_, leftQ, rightQ,
                    delivered, trackCalls, running >>

\* interface_->handleIMU(msgIMU), unconditionally
ImuCallback ==
    /\ CanStart("ImuCallback")
    /\ calls' = << Call("handleIMU", nEvents + 1) >>
    /\ done' = Returned("ImuCallback", calls')
    /\ nEvents' = nEvents + 1
    /\ reply' = NoReply
    /\ op' = "ImuCallback"
    /\ UNCHANGED << config, successes, reported, isTracked_, tfMapOdom_, frequency_tracker_count_,
                    leftQ, rightQ, delivered, trackCalls, running >>

----------------------------------------------------------------------------
(* The periodic publishers *)

\* Mutant: the firing does not test the flag.
Gate_Always(flag) == TRUE

\* Mutant: the firing tests !isTracked_.
Gate_Negated(flag) == ~flag

\* if (isTracked_) { ... } : what a firing does on entry
Gate(flag) == flag

\* mapDataTimer_ fires: publishMapData starts and tests isTracked_.
publishMapData_Fire ==
    /\ CanStart("publishMapData")
    /\ IF Gate(isTracked_)
       THEN /\ Start("publishMapData", "report", << >>)
            /\ done' = NoReturn
       ELSE /\ nEvents' = nEvents + 1
            /\ done' = Returned("publishMapData", << >>)
            /\ UNCHANGED running
    /\ reply' = NoReply
    /\ op' = "publishMapData_Fire"
    /\ calls' = << >>
    /\ UNCHANGED << config, successes, reported, isTracked_, tfMapOdom_, frequency_tracker_count_,
                    leftQ, rightQ, delivered, trackCalls >>

\* RCLCPP_INFO_STREAM(... frequency_tracker_count_ / elapsed ...): the read
publishMapData_Report(t) ==
    /\ running[t].pc = "report"
    /\ running' = [running EXCEPT ![t].pc = "reset",
                                   ![t].loc = frequency_tracker_count_]
    /\ reply' = NoReply
    /\ op' = "publishMapData_Report"
    /\ reported' = reported + frequency_tracker_count_
    /\ calls' = << >>
    /\ done' = NoReturn
    /\ UNCHANGED << config, successes, isTracked_, tfMapOdom_, frequency_tracker_count_,
                    leftQ, rightQ, delivered, trackCalls, nEvents >>

\* frequency_tracker_count_ = 0
publishMapData_Reset(t) ==
    /\ running[t].pc = "reset"
    /\ frequency_tracker_count_' = 0
    /\ running' = [running EXCEPT ![t].pc = "publish"]
    /\ reply' = NoReply
    /\ op' = "publishMapData_Reset"
    /\ calls' = << >>
    /\ done' = NoReturn
    /\ UNCHANGED << config, successes, reported, isTracked_, tfMapOdom_, leftQ, rightQ, delivered,
                    trackCalls, nEvents >>

\* mapDataToMsg(mapDataMsg, true, false); mapDataPub_->publish(mapDataMsg)
MapDataCalls == << Call("mapDataToMsg", << TRUE, FALSE >>), Call("mapDataPub_.publish", 0) >>

publishMapData_Publish(t) ==
    /\ running[t].pc = "publish"
    /\ calls' = MapDataCalls
    /\ done' = Returned("publishMapData", running[t].log \o calls')
    /\ Return(t)
    /\ reply' = NoReply
    /\ op' = "publishMapData_Publish"
    /\ UNCHANGED << config, successes, reported, isTracked_, tfMapOdom_, frequency_tracker_count_,
                    leftQ, rightQ, delivered, trackCalls, nEvents >>

\* mapPointsTimer_ exists only if rosViz_; publishMapPointCloud tests isTracked_.
publishMapPointCloud_Fire ==
    /\ rosViz_
    /\ CanStart("publishMapPointCloud")
    /\ IF Gate(isTracked_)
       THEN /\ Start("publishMapPointCloud", "getCurrentMapPoints", << >>)
            /\ done' = NoReturn
       ELSE /\ nEvents' = nEvents + 1
            /\ done' = Returned("publishMapPointCloud", << >>)
            /\ UNCHANGED running
    /\ reply' = NoReply
    /\ op' = "publishMapPointCloud_Fire"
    /\ calls' = << >>
    /\ UNCHANGED << config, successes, reported, isTracked_, tfMapOdom_, frequency_tracker_count_,
                    leftQ, rightQ, delivered, trackCalls >>

\* Mutant: the empty cloud is published like any other.
MapPointsCalls_NoEmptyCheck(size) ==
    << Call("getCurrentMapPoints", size), Call("mapPointsPub_.publish", size) >>

\* getCurrentMapPoints(mapPCL); if (mapPCL.data.size() == 0) return;
\* mapPointsPub_->publish(mapPCL)
MapPointsCalls(size) ==
    << Call("getCurrentMapPoints", size) >>
        \o (IF size = 0 THEN << >> ELSE << Call("mapPointsPub_.publish", size) >>)

publishMapPointCloud_Publish(t) ==
    /\ running[t].pc = "getCurrentMapPoints"
    /\ \E size \in CloudSizes : calls' = MapPointsCalls(size)
    /\ done' = Returned("publishMapPointCloud", running[t].log \o calls')
    /\ Return(t)
    /\ reply' = NoReply
    /\ op' = "publishMapPointCloud_Publish"
    /\ UNCHANGED << config, successes, reported, isTracked_, tfMapOdom_, frequency_tracker_count_,
                    leftQ, rightQ, delivered, trackCalls, nEvents >>

----------------------------------------------------------------------------
(* The services *)

\* Mutant: the service tests the tracking flag as the periodic publishers do.
GetMapReply_Gated(tracked_points, kf_id) ==
    IF isTracked_
    THEN [calls |-> << Call("mapDataToMsg", << FALSE, tracked_points, kf_id >>) >>,
          data |-> mapDataToMsg(FALSE, tracked_points, kf_id)]
    ELSE [calls |-> << >>, data |-> mapDataToMsg(FALSE, FALSE, 0)]

\* mapDataToMsg(mapDataMsg, false, request->tracked_points, request->kf_id_for_landmarks);
\* response->data = mapDataMsg
GetMapReply(tracked_points, kf_id) ==
    [calls |-> << Call("mapDataToMsg", << FALSE, tracked_points, kf_id >>) >>,
     data |-> mapDataToMsg(FALSE, tracked_points, kf_id)]

getMapServer ==
    /\ CanStart("getMapServer")
    /\ \E tracked_points \in BOOLEAN, kf_id \in KeyframeIds :
          LET r == GetMapReply(tracked_points, kf_id) IN
          /\ calls' = r.calls
          /\ reply' = Reply("getMapServer", << tracked_points, kf_id >>, r.data)
    /\ done' = Returned("getMapServer", calls')
    /\ nEvents' = nEvents + 1
    /\ op' = "getMapServer"
    /\ UNCHANGED << config, successes, reported, isTracked_, tfMapOdom_, frequency_tracker_count_,
                    leftQ, rightQ, delivered, trackCalls, running >>

\* Mutant: the landmarks are collected in reverse.
LandmarksOf_Reversed(points) ==
    [i \in DOMAIN points |-> vector3fORBToROS(GetWorldPos(points[Len(points) + 1 - i]))]

\* for (const auto &point : points) landmarks.push_back(<position of point>)
LandmarksOf(points) ==
    [i \in DOMAIN points |-> vector3fORBToROS(GetWorldPos(points[i]))]

\* mapPointsVisibleFromPose(request->pose, points, 1000, 5.0, 2.0);
\* response->map_points = landmarks; then the two auxiliary publications
InViewQuery(counts) ==
    /\ CanStart("getMapPointsInViewServer")
    /\ \E n \in counts :
          LET points == mapPointsVisibleFromPose(n, MaxLandmarksInView) IN
          /\ calls' = << Call("mapPointsVisibleFromPose", << MaxLandmarksInView, n >>),
                        Call("visibleLandmarksPub_.publish", Len(points)),
                        Call("visibleLandmarksPose_.publish", "request->pose") >>
          /\ reply' = Reply("getMapPointsInViewServer", "request->pose", LandmarksOf(points))
    /\ done' = Returned("getMapPointsInViewServer", calls')
    /\ nEvents' = nEvents + 1
    /\ op' = "getMapPointsInViewServer"
    /\ UNCHANGED << config, successes, reported, isTracked_, tfMapOdom_, frequency_tracker_count_,
                    leftQ, rightQ, delivered, trackCalls, running >>

getMapPointsInViewServer == InViewQuery(VisibleCounts)

\* The same handler when the engine finds at least as many points as the limit.
getMapPointsInViewServer_AtLimit == InViewQuery(VisibleCountsAtLimit)

----------------------------------------------------------------------------
(* The node *)

\* A callback is taken by an executor thread.
Starts ==
    \/ ImageArrives
    \/ OdomCallback
    \/ ImuCallback
    \/ publishMapData_Fire
    \/ publishMapPointCloud_Fire
    \/ getMapServer
    \/ getMapPointsInViewServer

\* A running callback takes its next step.
Steps ==
    \E t \in Threads :
        \/ SyncEmit(t)
        \/ SyncReturn(t)
        \/ StereoCallback_Track(t)
        \/ StereoCallback_Tracked(t)
        \/ StereoCallback_CountLoad(t)
        \/ StereoCallback_CountStore(t)
        \/ publishMapData_Report(t)
        \/ publishMapData_Reset(t)
        \/ publishMapData_Publish(t)
        \/ publishMapPointCloud_Publish(t)

Next == Starts \/ Steps

Spec == Init /\ [][Next]_vars

\* The node in shorter runs, with landmark queries that reach the lookup's limit.
NextInView ==
    \/ nEvents < MaxQueryEvents /\ Starts
    \/ Steps
    \/ nEvents < MaxQueryEvents /\ getMapPointsInViewServer_AtLimit

SpecInView == Init /\ [][NextInView]_vars

----------------------------------------------------------------------------
(* Properties *)

Range(s) == {s[i] : i \in DOMAIN s}

ComposedMode == ~no_odometry_mode_ /\ publish_tf_

DirectMode == no_odometry_mode_ /\ publish_tf_

TimerSteps == {"publishMapData_Fire", "publishMapData_Report", "publishMapData_Reset",
               "publishMapData_Publish", "publishMapPointCloud_Fire",
               "publishMapPointCloud_Publish"}

InTrackStereo == {t \in Threads : running[t].pc = "trackStereo"}

\* C1: every pair delivered to StereoCallback is passed to trackStereo exactly
\* once, in delivery order (trackCalls is delivered, short of the pair whose
\* callback has not reached the call yet), and no image still unpaired in the
\* synchronizer appears in any trackStereo invocation.
C1_TrackOncePerPairInOrder ==
    LET entered == {t \in Threads : running[t].pc = "StereoCallback"} IN
    /\ Len(trackCalls) + Cardinality(entered) = Len(delivered)
    /\ trackCalls = SubSeq(delivered, 1, Len(trackCalls))
    /\ \A i, j \in DOMAIN trackCalls : i # j => trackCalls[i] # trackCalls[j]
    /\ \A i \in DOMAIN trackCalls :
          /\ trackCalls[i][1] \notin Range(leftQ) \cup Range(rightQ)
          /\ trackCalls[i][2] \notin Range(leftQ) \cup Range(rightQ)

\* Two pairs were tracked in order while an unpaired image stays buffered.
C1_Witness ==
    /\ Len(trackCalls) = 2
    /\ trackCalls = delivered
    /\ Len(leftQ) + Len(rightQ) > 0

\* C2: at most one trackStereo call is in flight, whatever else runs.
C2_AtMostOneTrackInFlight == Cardinality(InTrackStereo) <= 1

\* The second trackStereo call of the run is in flight while a timer callback
\* runs on the other thread.
C2_Witness ==
    /\ Cardinality(InTrackStereo) = 1
    /\ \E t \in Threads : running[t].h = "publishMapData"
    /\ Len(trackCalls) = 2

\* C3 as stated: while isTracked_ is false no timer firing publishes or asks
\* the engine for a snapshot, and a firing of either periodic publisher that
\* runs once tracking has succeeded produces output (a publish).
C3_Original ==
    /\ (op \in TimerSteps /\ ~isTracked_) => (calls = << >> /\ done.log = << >>)
    /\ (done.h = "publishMapData" /\ isTracked_)
          => CountCalls(done.log, "mapDataPub_.publish") = 1
    /\ (done.h = "publishMapPointCloud" /\ isTracked_)
          => CountCalls(done.log, "mapPointsPub_.publish") = 1

\* C3 amended: while isTracked_ is false no timer firing publishes or asks the
\* engine for a snapshot; once tracking has succeeded a publishMapData firing
\* fetches and publishes the map data once, and a publishMapPointCloud firing
\* requests the cloud once and publishes it once unless the cloud is empty.
C3_GatedPublishers ==
    /\ (op \in TimerSteps /\ ~isTracked_) => (calls = << >> /\ done.log = << >>)
    /\ (done.h = "publishMapData" /\ isTracked_)
          => Names(done.log) = << "mapDataToMsg", "mapDataPub_.publish" >>
    /\ (done.h = "publishMapPointCloud" /\ isTracked_)
          => /\ Len(done.log) >= 1
             /\ done.log[1].f = "getCurrentMapPoints"
             /\ IF done.log[1].a = 0
                THEN Len(done.log) = 1
                ELSE /\ Names(done.log) = << "getCurrentMapPoints", "mapPointsPub_.publish" >>
                     /\ done.log[2].a = done.log[1].a

\* A publishMapPointCloud firing after a tracking success that got an empty
\* cloud and published nothing.
C3_Witness ==
    /\ done.h = "publishMapPointCloud"
    /\ isTracked_
    /\ Names(done.log) = << "getCurrentMapPoints" >>

\* C4 as stated: in composed mode StereoCallback never calls sendTransform.
C4_Original ==
    (ComposedMode /\ op = "StereoCallback_Tracked")
        => CountCalls(calls, "sendTransform") = 0

\* C4 amended: in composed mode a successful tracking result makes
\* StereoCallback call sendTransform exactly once with the cached tfMapOdom_,
\* which it does not recompute (the value is the constructor's or the one
\* OdomCallback wrote); a not-tracked result broadcasts nothing.
C4_ComposedStereoBroadcastsCached ==
    ComposedMode =>
        /\ op = "StereoCallback_Tracked"
              => /\ Names(calls) = << "sendTransform" >>
                 /\ calls[1].a = tfMapOdom_
        /\ op = "StereoCallback_NotTracked" => calls = << >>
        /\ tfMapOdom_.by \in {"default", "odom"}

\* A successful StereoCallback in composed mode broadcasts the transform an
\* earlier odometry sample produced.
C4_Witness ==
    /\ ComposedMode
    /\ op = "StereoCallback_Tracked"
    /\ Names(calls) = << "sendTransform" >>
    /\ calls[1].a.by = "odom"

\* C5 as stated: in composed mode every OdomCallback recomputes the transform
\* and then broadcasts it itself.
C5_Original ==
    (ComposedMode /\ op = "OdomCallback")
        => Names(calls) = << "getMapToOdomTF", "sendTransform" >>

\* C5 amended: in composed mode every OdomCallback recomputes tfMapOdom_ from
\* its sample via getMapToOdomTF and broadcasts nothing; a transform is only
\* ever broadcast by a successful StereoCallback.
C5_OdomRecomputesStereoBroadcasts ==
    /\ (ComposedMode /\ op = "OdomCallback")
          => /\ Names(calls) = << "getMapToOdomTF" >>
             /\ calls[1].a = nEvents
             /\ tfMapOdom_ = getMapToOdomTF(nEvents)
    /\ CountCalls(calls, "sendTransform") > 0 => op = "StereoCallback_Tracked"

\* An odometry sample handled in composed mode after tracking has succeeded.
C5_Witness ==
    /\ ComposedMode
    /\ op = "OdomCallback"
    /\ isTracked_
    /\ tfMapOdom_.by = "odom"

\* C6: in direct mode a successful StereoCallback recomputes tfMapOdom_ once
\* via getDirectMapToRobotTF from the left image's header and then calls
\* sendTransform once with that fresh value, all before it returns.
C6_DirectComputeThenBroadcast ==
    DirectMode =>
        /\ op = "StereoCallback_Tracked"
              => /\ Names(calls) = << "getDirectMapToRobotTF", "sendTransform" >>
                 /\ calls[2].a = getDirectMapToRobotTF(calls[1].a)
                 /\ tfMapOdom_ = calls[2].a
        /\ (done.h = "StereoCallback" /\ op = "StereoCallback_CountStore")
              => /\ Names(done.log) = << "trackStereo", "getDirectMapToRobotTF",
                                         "sendTransform" >>
                 /\ done.log[2].a = done.log[1].a[1]
                 /\ done.log[3].a = getDirectMapToRobotTF(done.log[1].a[1])

\* A successful StereoCallback returns in direct mode, the second of the run.
C6_Witness ==
    /\ DirectMode
    /\ op = "StereoCallback_CountStore"
    /\ done.h = "StereoCallback"
    /\ Len(trackCalls) = 2

\* C7: with publish_tf_ false no step calls sendTransform or a transform
\* computation, and tfMapOdom_ keeps its constructed value.
C7_NoTransformWhenDisabled ==
    ~publish_tf_ =>
        /\ tfMapOdom_ = DefaultTF
        /\ CountCalls(calls, "sendTransform") = 0
        /\ CountCalls(calls, "getDirectMapToRobotTF") = 0
        /\ CountCalls(calls, "getMapToOdomTF") = 0
        /\ CountCalls(done.log, "sendTransform") = 0

\* An odometry sample arrives after a tracking success, publish_tf_ false,
\* odometry mode on.
C7_Witness ==
    /\ ~publish_tf_
    /\ ~no_odometry_mode_
    /\ isTracked_
    /\ frequency_tracker_count_ > 0
    /\ op = "OdomCallback"

\* C8: the steps of a StereoCallback whose trackStereo returns not-tracked
\* leave isTracked_, frequency_tracker_count_ and tfMapOdom_ as they were, and
\* the whole callback made no call but trackStereo.
C8_NotTrackedChangesNothing ==
    [][ /\ op' \in {"StereoCallback_Track", "StereoCallback_NotTracked"}
            => UNCHANGED << isTracked_, frequency_tracker_count_, tfMapOdom_ >>
        /\ op' = "StereoCallback_NotTracked"
            => /\ calls' = << >>
               /\ done'.h = "StereoCallback"
               /\ Names(done'.log) = << "trackStereo" >>
      ]_vars

\* A not-tracked result after an earlier success: the flag, the counter and
\* the transform hold values of that success.
C8_Witness ==
    /\ op = "StereoCallback_NotTracked"
    /\ isTracked_
    /\ frequency_tracker_count_ > 0
    /\ tfMapOdom_ # DefaultTF

\* C9: an OdomCallback with no_odometry_mode_ true or publish_tf_ false makes
\* no getMapToOdomTF call, changes no field of the node and returns (it only
\* warns); with no_odometry_mode_ false and publish_tf_ true it stores the
\* transform of its sample in tfMapOdom_.
C9_OdomDiscardedUnlessComposed ==
    [][ op' = "OdomCallback" =>
            IF ~no_odometry_mode_ /\ publish_tf_
            THEN /\ tfMapOdom_' = getMapToOdomTF(nEvents')
                 /\ Names(calls') = << "getMapToOdomTF" >>
            ELSE /\ UNCHANGED << config, successes, reported, isTracked_, tfMapOdom_, frequency_tracker_count_,
                                 leftQ, rightQ, delivered, trackCalls, running >>
                 /\ Names(calls') = << "RCLCPP_WARN_THROTTLE" >>
                 /\ done'.h = "OdomCallback"
      ]_vars

\* An odometry sample is discarded in direct mode while a transform computed
\* by tracking is cached.
C9_Witness ==
    /\ op = "OdomCallback"
    /\ no_odometry_mode_
    /\ tfMapOdom_.by = "direct"
    /\ Names(calls) = << "RCLCPP_WARN_THROTTLE" >>

\* C10: right after publishMapData has published the map data,
\* frequency_tracker_count_ is zero.
C10_ZeroAfterPublish ==
    op = "publishMapData_Publish" => frequency_tracker_count_ = 0

InTimer == {t \in Threads : running[t].h \in {"publishMapData", "publishMapPointCloud"}}

StereoSteps == {"StereoCallback_Track", "StereoCallback_Tracked",
                "StereoCallback_NotTracked", "StereoCallback_CountLoad",
                "StereoCallback_CountStore"}

\* C11: while a firing of publishMapData or publishMapPointCloud is in
\* progress the stereo path is not held up by it: if no other callback is
\* running, the next image callback can start; a
\* synchronizer that holds a left and a right image can hand the pair to
\* StereoCallback; and a StereoCallback that was entered can call trackStereo.
C11_PublisherNeverBlocksStereo ==
    InTimer # {} =>
        /\ (nEvents < MaxEvents /\ \A t \in Threads : t \in InTimer \cup Idle)
              => ENABLED ImageArrives
        /\ \A t \in Threads :
              /\ (running[t].pc = "sync" /\ leftQ # << >> /\ rightQ # << >>)
                    => ENABLED SyncEmit(t)
              /\ running[t].pc = "StereoCallback" => ENABLED StereoCallback_Track(t)

\* A publishMapData firing is between its reset and its publish while
\* StereoCallback has been entered with a pair and is about to call trackStereo.
C11_Witness ==
    /\ \E u \in Threads : running[u].pc = "publish"
    /\ \E t \in Threads : running[t].pc = "StereoCallback"
    /\ Cardinality(InTrackStereo) = 0

\* C12: the two periodic publishers are scheduled independently: while a
\* publishMapData firing is in progress (visualization on, a thread idle) a
\* publishMapPointCloud firing can start, and the other way round.
C12_TimersIndependent ==
    LET Running(h) == \E u \in Threads : running[u].h = h IN
    (nEvents < MaxEvents /\ Idle # {}) =>
        /\ (rosViz_ /\ Running("publishMapData") /\ ~Running("publishMapPointCloud"))
              => ENABLED publishMapPointCloud_Fire
        /\ (Running("publishMapPointCloud") /\ ~Running("publishMapData"))
              => ENABLED publishMapData_Fire

\* C13: a publishMapPointCloud firing that finds isTracked_ true goes on to
\* ask the engine for the cloud, exactly once; it publishes that cloud exactly
\* once if its data is non-empty and makes no publish call if it is empty,
\* and returns normally either way.
C13_CloudPublishedIffNonEmpty ==
    /\ (op = "publishMapPointCloud_Fire" /\ isTracked_)
          => /\ done = NoReturn
             /\ \E t \in Threads : running[t].pc = "getCurrentMapPoints"
    /\ op = "publishMapPointCloud_Publish"
          => /\ done.h = "publishMapPointCloud"
             /\ done.log = calls
             /\ CountCalls(calls, "getCurrentMapPoints") = 1
             /\ calls[1].f = "getCurrentMapPoints"
             /\ CountCalls(calls, "mapPointsPub_.publish")
                   = (IF calls[1].a = 0 THEN 0 ELSE 1)
             /\ Len(calls) = (IF calls[1].a = 0 THEN 1 ELSE 2)
             /\ Len(calls) = 2 => calls[2].a = calls[1].a

\* A firing with isTracked_ true got a non-empty cloud and published it.
C13_Witness ==
    /\ op = "publishMapPointCloud_Publish"
    /\ isTracked_
    /\ Names(calls) = << "getCurrentMapPoints", "mapPointsPub_.publish" >>
    /\ calls[1].a > 0

Outputs == {"sendTransform", "mapDataPub_.publish", "mapPointsPub_.publish"}

\* C14: a step that broadcasts a transform or publishes map data or the map
\* point cloud happens only once a trackStereo call has succeeded, with
\* isTracked_ true.
C14_NoOutputBeforeFirstSuccess ==
    (\E i \in DOMAIN calls : calls[i].f \in Outputs)
        => (isTracked_ /\ successes >= 1)

\* The map data is published in a run of two tracking calls of which one
\* succeeded and one failed.
C14_Witness ==
    /\ op = "publishMapData_Publish"
    /\ Len(trackCalls) = 2
    /\ successes = 1
    /\ InTrackStereo = {}

\* C15: every getMapServer request, whatever isTracked_ is, fetches exactly one
\* snapshot from the engine with the request's filters (current-map-only
\* false) and returns that snapshot in the response; the handler leaves
\* isTracked_, frequency_tracker_count_ and tfMapOdom_ as they were, and the
\* response is a function of the request alone.
C15_GetMapIndependentOfTracking ==
    [][ op' = "getMapServer" =>
            /\ UNCHANGED << isTracked_, frequency_tracker_count_, tfMapOdom_ >>
            /\ done'.h = "getMapServer"
            /\ reply'.h = "getMapServer"
            /\ Names(calls') = << "mapDataToMsg" >>
            /\ calls'[1].a = << FALSE, reply'.req[1], reply'.req[2] >>
            /\ reply'.resp = mapDataToMsg(FALSE, reply'.req[1], reply'.req[2])
      ]_vars

\* A request for full landmark detail is answered before any tracking
\* success, after a tracking call that failed.
C15_Witness ==
    /\ op = "getMapServer"
    /\ ~isTracked_
    /\ Len(trackCalls) = 1
    /\ InTrackStereo = {}
    /\ reply.req[1]
    /\ reply.resp.tracked_points

\* C16: the configuration never changes, and with publish_tf_ true exactly
\* one kind of callback computes and writes tfMapOdom_: with no_odometry_mode_
\* true every successful StereoCallback does (getDirectMapToRobotTF) and no other
\* step, OdomCallback included; with no_odometry_mode_ false every
\* OdomCallback does (getMapToOdomTF) and no other step, StereoCallback included.
C16_OneTransformTriggerPerMode ==
    [][ /\ UNCHANGED config
        /\ publish_tf_ =>
              LET writes == \/ tfMapOdom_' # tfMapOdom_
                            \/ CountCalls(calls', "getDirectMapToRobotTF") > 0
                            \/ CountCalls(calls', "getMapToOdomTF") > 0
              IN IF no_odometry_mode_
                 THEN /\ writes <=> op' = "StereoCallback_Tracked"
                      /\ writes => /\ Names(calls')[1] = "getDirectMapToRobotTF"
                                   /\ tfMapOdom_'.by = "direct"
                                   /\ tfMapOdom_' # tfMapOdom_
                 ELSE /\ writes <=> op' = "OdomCallback"
                      /\ writes => /\ Names(calls') = << "getMapToOdomTF" >>
                                   /\ tfMapOdom_'.by = "odom"
                                   /\ tfMapOdom_' # tfMapOdom_
      ]_vars

\* In composed mode a successful StereoCallback has returned and the cached
\* transform is still the one an odometry sample produced.
C16_Witness ==
    /\ ComposedMode
    /\ op = "StereoCallback_CountStore"
    /\ tfMapOdom_.by = "odom"

\* C17: a landmarks-in-view query whose lookup (limit 1000) finds n visible
\* points answers with min(n, 1000) landmarks, the i-th being the position of
\* the engine's i-th point; every query makes exactly one lookup, publishes
\* exactly one auxiliary cloud (of those points) and one auxiliary pose (the
\* request's), whatever n is, and changes no field of the node.
C17_LandmarksInView ==
    [][ op' = "getMapPointsInViewServer" =>
            LET n == calls'[1].a[2]
                k == IF n < 1000 THEN n ELSE 1000
            IN /\ Names(calls') = << "mapPointsVisibleFromPose",
                                     "visibleLandmarksPub_.publish",
                                     "visibleLandmarksPose_.publish" >>
               /\ calls'[1].a[1] = 1000
               /\ reply'.h = "getMapPointsInViewServer"
               /\ Len(reply'.resp) = k
               /\ \A i \in 1 .. k :
                     reply'.resp[i] = vector3fORBToROS(GetWorldPos(i))
               /\ calls'[2].a = k
               /\ calls'[3].a = reply'.req
               /\ done'.h = "getMapPointsInViewServer"
               /\ UNCHANGED << isTracked_, frequency_tracker_count_, tfMapOdom_ >>
      ]_vars

\* The engine found 1001 visible points and the response holds 1000 landmarks.
C17_Witness ==
    /\ op = "getMapPointsInViewServer"
    /\ calls[1].a[2] = 1001
    /\ Len(reply.resp) = 1000
    /\ reply.resp[1000] = vector3fORBToROS(GetWorldPos(1000))

\* C18: isTracked_ never goes back to false: it is true from the first
\* successful trackStereo call on, whatever follows, so a timer firing after
\* that is never dropped at the isTracked_ test.
C18_TrackedIsMonotonic ==
    [][ /\ isTracked_ => isTracked_'
        /\ successes' > 0 => isTracked_'
        /\ (successes > 0 /\ op' \in {"publishMapData_Fire", "publishMapPointCloud_Fire"})
               => done' = NoReturn
      ]_vars

\* A trackStereo call has just failed after an earlier one succeeded, the flag
\* is still set and a publishMapData firing is on its way to publish.
C18_Witness ==
    /\ op = "StereoCallback_NotTracked"
    /\ successes = 1
    /\ Len(trackCalls) = 2
    /\ isTracked_
    /\ \E t \in Threads : running[t].h = "publishMapData"

\* C19: no sendTransform call carries the default-initialised tfMapOdom_:
\* whatever is broadcast was written by getDirectMapToRobotTF or
\* getMapToOdomTF before.
C19_NeverBroadcastsDefault ==
    \A i \in DOMAIN calls :
        calls[i].f = "sendTransform" => calls[i].a # DefaultTF

\* C20: when no callback is running, the counter values reported by
\* publishMapData so far plus the current frequency_tracker_count_ add up to
\* the number of successful trackStereo calls.
C20_EverySuccessCountedOnce ==
    Idle = Threads => reported + frequency_tracker_count_ = successes

====
